---- MODULE Spec2Model ----
(***************************************************************************)
(* Model of application/worker.py: recursive archive extraction, the local *)
(* upload job (ingest_worker), the remote job (remote_worker), the         *)
(* scheduled resync (sync, sync_worker) and the attachment job             *)
(* (attachment_worker).                                                    *)
(***************************************************************************)
EXTENDS Integers, Sequences, FiniteSets, TLC

\* ---------------------------------------------------------------- bounds
\* Archives are numbered 1..MaxNodes; archive 1 is the downloaded file.
MaxNodes == 8
\* Trees with siblings use at most MaxBushy archives; longer ones are chains.
MaxBushy == 4
\* Largest max_depth a caller of extract_zip_recursive passes in the model.
MaxCeiling == 6
\* At most this many archives of a tree are corrupt.
MaxCorrupt == 1

\* Progress reports the embedding sink makes in one call.
MaxReports == 1

\* Number of job slots that may run concurrently.
NProcs == 2
\* Total number of jobs started in one behaviour.
MaxRuns == 2
\* Source records in the store.
MaxSources == 3
\* Object ids a caller can supply or a stored record can carry: 1..MaxDocId.
MaxDocId == 2

\* ------------------------------------------------------- program constants
RECURSION_DEPTH == 2
\* def extract_zip_recursive(zip_path, extract_to, current_depth=0, max_depth=5)
DEFAULT_MAX_DEPTH == 5

Archives == 1..MaxNodes
Procs == 1..NProcs
\* os.path.join(directory, user, name_job)
Paths == {"temp/u1/job1", "temp/u1/job2"}
\* Path of the destination when extract_zip_recursive is run on its own.
ZipDest == "temp/u1/job1"
Freqs == {"daily", "never"}

VARIABLES
    parent,      \* the archive tree: parent[a] = archive that contains a (0: none)
    corrupt,     \* archives that zipfile cannot extract completely
    max_depth,        \* max_depth of the running extract_zip_recursive call
    extract_to,       \* extract_to of the running call
    zstack,      \* the call stack of extract_zip_recursive, innermost last
    zipFiles,    \* zipFiles[d]: .zip files present in directory d
    plainFiles,  \* plainFiles[d]: other files in d (archive a holds file a;
                 \* 0 is a downloaded file that is not an archive)
    extracted,   \* extracted[a] = number of successful extractions of archive a
    opened,      \* recursion depths at which an archive was opened so far
    warnings,    \* number of "Reached maximum recursion depth" warnings logged
    errors,      \* number of "Error extracting zip file" errors logged
    dirs,        \* working directories that exist on disk
    job,         \* job[p]: the job running in slot p
    runs,        \* number of jobs started so far
    nextId,      \* number of ObjectId() values minted so far
    sources,     \* the sources collection, in find() order
    sw,          \* the running sync_worker call
    calls,       \* calls[i]: remote_worker calls made for source record i
    raisedFor,   \* source records whose remote_worker call raised
    attachments, \* number of records in the attachments collection
    submitted    \* calls of embed_and_store_documents and upload_index, in
                 \* order, since the start or the last sync_worker call

zvars == <<parent, corrupt, max_depth, extract_to, zstack, zipFiles, plainFiles,
           extracted, opened, warnings, errors>>
svars == <<sources, sw, calls, raisedFor>>

vars == <<zvars, dirs, job, runs, nextId, svars, attachments, submitted>>

\* ------------------------------------------------------------ archive trees
\* Pad a parent map over 1..n to one over all of Archives.
Pad(g) == [a \in Archives |-> IF a \in DOMAIN g THEN g[a] ELSE 0]

\* Every tree on at most MaxBushy archives: archive i > 1 lies in an earlier one.
BushyTrees ==
    { Pad(g) : g \in { h \in UNION { [1..n -> 0..(n - 1)] : n \in 1..MaxBushy } :
                          /\ h[1] = 0
                          /\ \A i \in DOMAIN h : i > 1 => h[i] \in 1..(i - 1) } }

\* Chains: archive i contains archive i+1 only.
Chains == { [a \in Archives |-> IF a <= n THEN a - 1 ELSE 0] : n \in 1..MaxNodes }

Trees == BushyTrees \cup Chains

Exists(a) == a = 1 \/ parent[a] # 0

\* zip members of archive a.
Members(a) == { c \in Archives : c # 1 /\ parent[c] = a }

\* Nesting depth of archive a: 0 for the downloaded file.
RECURSIVE Depth(_)
Depth(a) == IF a = 1 \/ parent[a] = 0 THEN 0 ELSE 1 + Depth(parent[a])

\* --------------------------------------------------- extract_zip_recursive
Top == zstack[Len(zstack)]
Pop == SubSeq(zstack, 1, Len(zstack) - 1)

\* A call frame that does not count the recursion depth.
Frame_depth_zero(a, d) ==
    [zip_path |-> a, current_depth |-> 0, pc |-> "enter", files |-> {}]

\* extract_zip_recursive(zip_path, extract_to, current_depth, max_depth) is entered.
Frame(a, d) == [zip_path |-> a, current_depth |-> d, pc |-> "enter", files |-> {}]

ZipRunning == zstack # <<>>

\* What a step of extract_zip_recursive leaves alone besides the file system.
zfixed == <<parent, corrupt, max_depth, extract_to, dirs, job, runs, nextId, svars,
           attachments, submitted>>

\* The depth test that lets one level too many through.
TooDeep_off_by_one(current_depth) == current_depth > max_depth + 1

\* if current_depth > max_depth:
TooDeep(current_depth) == current_depth > max_depth

\* if current_depth > max_depth: logging.warning(...); return
extract_zip_depth_exceeded ==
    /\ ZipRunning
    /\ Top.pc = "enter"
    /\ TooDeep(Top.current_depth)
    /\ warnings' = warnings + 1
    /\ zstack' = Pop
    /\ UNCHANGED <<zfixed, zipFiles, plainFiles, extracted, opened, errors>>

\* extractall succeeds, the archive is removed, os.walk lists the destination.
extract_zip_extractall ==
    /\ ZipRunning
    /\ Top.pc = "enter"
    /\ ~TooDeep(Top.current_depth)
    /\ Top.zip_path \in zipFiles[extract_to]
    /\ Top.zip_path \notin corrupt
    /\ LET a == Top.zip_path
           z == (zipFiles[extract_to] \cup Members(a)) \ {a}
       IN  /\ zipFiles' = [zipFiles EXCEPT ![extract_to] = z]
           /\ plainFiles' = [plainFiles EXCEPT ![extract_to] = @ \cup {a}]
           /\ extracted' = [extracted EXCEPT ![a] = @ + 1]
           /\ opened' = opened \cup {Top.current_depth}
           /\ zstack' = [zstack EXCEPT ![Len(zstack)] =
                            [@ EXCEPT !.pc = "walk", !.files = z]]
    /\ UNCHANGED <<zfixed, warnings, errors>>

\* The failure of ZipFile / extractall leaves extract_zip_recursive as an
\* exception: every active call is unwound and the calling job raises.
extract_zip_error_raises ==
    /\ ZipRunning
    /\ Top.pc = "enter"
    /\ ~TooDeep(Top.current_depth)
    /\ LET a == Top.zip_path
       IN  \/ /\ a \notin zipFiles[extract_to]
              /\ UNCHANGED <<zipFiles, plainFiles, opened>>
           \/ /\ a \in zipFiles[extract_to]
              /\ a \in corrupt
              /\ \E part \in SUBSET Members(a), own \in BOOLEAN :
                    /\ zipFiles' = [zipFiles EXCEPT ![extract_to] = @ \cup part]
                    /\ plainFiles' = [plainFiles EXCEPT ![extract_to] =
                                         IF own THEN @ \cup {a} ELSE @]
              /\ opened' = opened \cup {Top.current_depth}
    /\ errors' = errors + 1
    /\ zstack' = <<>>
    /\ job' = [p \in Procs |->
                  IF job[p].pc = "i_extract"
                  THEN [job[p] EXCEPT !.pc = "done", !.outcome = "raised",
                                      !.failedAt = "extract_zip_recursive"]
                  ELSE job[p]]
    /\ UNCHANGED <<parent, corrupt, max_depth, extract_to, dirs, runs, nextId, svars,
                   attachments, submitted, extracted, warnings>>

\* ZipFile / extractall raises (file gone, or corrupt after some members were
\* written): the error is logged and the call returns.
extract_zip_error ==
    /\ ZipRunning
    /\ Top.pc = "enter"
    /\ ~TooDeep(Top.current_depth)
    /\ LET a == Top.zip_path
       IN  \/ /\ a \notin zipFiles[extract_to]
              /\ UNCHANGED <<zipFiles, plainFiles, opened>>
           \/ /\ a \in zipFiles[extract_to]
              /\ a \in corrupt
              /\ \E part \in SUBSET Members(a), own \in BOOLEAN :
                    /\ zipFiles' = [zipFiles EXCEPT ![extract_to] = @ \cup part]
                    /\ plainFiles' = [plainFiles EXCEPT ![extract_to] =
                                         IF own THEN @ \cup {a} ELSE @]
              /\ opened' = opened \cup {Top.current_depth}
    /\ errors' = errors + 1
    /\ zstack' = Pop
    /\ UNCHANGED <<zfixed, extracted, warnings>>

\* for file in files: if file.endswith(".zip"): extract_zip_recursive(...)
extract_zip_recurse ==
    /\ ZipRunning
    /\ Top.pc = "walk"
    /\ \E f \in Top.files :
          zstack' = Append([zstack EXCEPT ![Len(zstack)] =
                               [@ EXCEPT !.files = @ \ {f}]],
                           Frame(f, Top.current_depth + 1))
    /\ UNCHANGED <<zfixed, zipFiles, plainFiles, extracted, opened, warnings, errors>>

\* the walk is exhausted: the call returns.
extract_zip_return ==
    /\ ZipRunning
    /\ Top.pc = "walk"
    /\ Top.files = {}
    /\ zstack' = Pop
    /\ UNCHANGED <<zfixed, zipFiles, plainFiles, extracted, opened, warnings, errors>>

\* --------------------------------------------------------------------- jobs
\* Caller-supplied doc_id strings: 0 is None or "", -1 a string that is not an
\* object id, n >= 1 the hexadecimal rendering of object id n.
DocIds == (-1)..MaxDocId

\* ObjectId.is_valid(doc_id)
ObjectId_is_valid(d) == d >= 1

\* ObjectId() that hands out the same id every time.
ObjectId_reused(n) == MaxDocId + MaxSources + 1

\* ObjectId(): the n-th minted id, different from every stored or supplied id.
ObjectId_new(n) == MaxDocId + MaxSources + n

NoJob ==
    [kind |-> "none", pc |-> "idle", full_path |-> "", via |-> "direct",
     operation_mode |-> "", doc_id |-> 0, id |-> 0, exc |-> "",
     outcome |-> "none", result |-> "", failedAt |-> "", sinkFailed |-> FALSE,
     embedCalls |-> 0, uploadCalls |-> 0, embedId |-> 0, uploadId |-> 0,
     docs |-> "none", embedDocs |-> "none", progress |-> <<>>,
     isZip |-> FALSE, hasFolder |-> FALSE, hasFilename |-> FALSE,
     fileExists |-> FALSE, documents |-> "none", inserted |-> 0]

\* A slot is free when no job has started in it or its job has ended, and
\* the sync_worker call is not waiting for that job.
Free(p) ==
    /\ job[p].pc \in {"idle", "done"}
    /\ ~(sw.pc = "wait" /\ sw.proc = p)

\* A checkpoint that reports 1 whatever the value it was given.
Reported_one(j, v) == [j EXCEPT !.progress = Append(@, 1)]

\* Values the embedding sink reports through self.update_state.
SinkValues == {1, 50, 100}

\* What one call of embed_and_store_documents reports: incremental
\* progress, that is at most MaxReports values that never decrease.
SinkReports ==
    { r \in UNION { [1..n -> SinkValues] : n \in 0..MaxReports } :
         \A i \in 1..(Len(r) - 1) : r[i] <= r[i + 1] }

\* self.update_state(state="PROGRESS", meta={"current": v}) returned.
Reported(j, v) == [j EXCEPT !.progress = Append(@, v)]

\* os.path.exists(full_path) followed by shutil.rmtree(full_path) removes the
\* directory and everything in it.
Rmtree(d) ==
    /\ dirs' = dirs \ {d}
    /\ zipFiles' = [zipFiles EXCEPT ![d] = {}]
    /\ plainFiles' = [plainFiles EXCEPT ![d] = {}]

\* The record of a call of embed_and_store_documents or upload_index by job
\* j: the id and the documents it passes.
Call(sink, j) ==
    [sink |-> sink, kind |-> j.kind, operation_mode |-> j.operation_mode,
     full_path |-> j.full_path, doc_id |-> j.doc_id, id |-> j.id, docs |-> j.docs]

\* What a job step that leaves the disk alone keeps.
jfixed == <<parent, corrupt, max_depth, extract_to, zstack, zipFiles, plainFiles,
            extracted, opened, warnings, errors, runs, svars, attachments>>

\* ------------------------------------------------------------ remote_worker
RemoteJob(path, mode, d, via) ==
    [NoJob EXCEPT !.kind = "remote", !.pc = "r_exists", !.full_path = path,
                  !.operation_mode = mode, !.doc_id = d, !.via = via]

\* An exception inside the try block: control goes to the finally clause.
RemoteExcept(j, step) ==
    [j EXCEPT !.exc = step, !.failedAt = step, !.pc = "r_finally"]

\* The job ends: the exception pending in the finally clause is re-raised.
RemoteEnd(j) ==
    IF j.exc # ""
    THEN [j EXCEPT !.pc = "done", !.outcome = "raised"]
    ELSE [j EXCEPT !.pc = "done", !.outcome = "returned", !.result = "ok"]

\* A caller starts remote_worker directly.
remote_worker_start(p) ==
    /\ Free(p)
    /\ runs < MaxRuns
    /\ runs' = runs + 1
    /\ \E path \in Paths, mode \in {"upload", "sync", "other"}, d \in DocIds :
          job' = [job EXCEPT ![p] = RemoteJob(path, mode, d, "direct")]
    /\ UNCHANGED <<submitted, zvars, dirs, nextId, svars, attachments>>

\* if not os.path.exists(full_path):
remote_worker_exists(p) ==
    /\ job[p].pc = "r_exists"
    /\ job' = [job EXCEPT ![p].pc =
                  IF job[p].full_path \in dirs THEN "r_progress1" ELSE "r_makedirs"]
    /\ UNCHANGED <<submitted, jfixed, dirs, nextId>>

\* os.makedirs(full_path): raises when the directory exists by now, or when
\* the operating system refuses.  Outside the try block.
remote_worker_makedirs(p) ==
    /\ job[p].pc = "r_makedirs"
    /\ \/ /\ job[p].full_path \notin dirs
          /\ dirs' = dirs \cup {job[p].full_path}
          /\ job' = [job EXCEPT ![p].pc = "r_progress1"]
       \/ /\ UNCHANGED dirs
          /\ job' = [job EXCEPT ![p] = [@ EXCEPT !.pc = "done", !.outcome = "raised",
                                                 !.failedAt = "makedirs"]]
    /\ UNCHANGED <<submitted, jfixed, nextId>>

\* self.update_state(state="PROGRESS", meta={"current": 1}), outside the try.
remote_worker_progress1(p) ==
    /\ job[p].pc = "r_progress1"
    /\ \/ job' = [job EXCEPT ![p] = [Reported(@, 1) EXCEPT !.pc = "r_create_loader"]]
       \/ job' = [job EXCEPT ![p] = [@ EXCEPT !.pc = "done", !.outcome = "raised",
                                              !.failedAt = "progress",
                                              !.sinkFailed = TRUE]]
    /\ UNCHANGED <<submitted, jfixed, dirs, nextId>>

\* remote_loader = RemoteCreator.create_loader(loader)
remote_worker_create_loader(p) ==
    /\ job[p].pc = "r_create_loader"
    /\ \/ job' = [job EXCEPT ![p].pc = "r_load_data"]
       \/ job' = [job EXCEPT ![p] = RemoteExcept(@, "create_loader")]
    /\ UNCHANGED <<submitted, jfixed, dirs, nextId>>

\* raw_docs = remote_loader.load_data(source_data)
remote_worker_load_data(p) ==
    /\ job[p].pc = "r_load_data"
    /\ \/ job' = [job EXCEPT ![p] = [@ EXCEPT !.pc = "r_chunk", !.docs = "raw"]]
       \/ job' = [job EXCEPT ![p] = RemoteExcept(@, "load_data")]
    /\ UNCHANGED <<submitted, jfixed, dirs, nextId>>

\* docs = chunker.chunk(documents=raw_docs)
\* docs = [Document.to_langchain_format(raw_doc) for raw_doc in raw_docs]
\* tokens = count_tokens_docs(docs)
remote_worker_chunk(p) ==
    /\ job[p].pc = "r_chunk"
    /\ \/ job' = [job EXCEPT ![p] = [@ EXCEPT !.pc = "r_mode", !.docs = "raw"]]
       \/ job' = [job EXCEPT ![p] = RemoteExcept(@, "chunk")]
    /\ UNCHANGED <<submitted, jfixed, dirs, nextId>>

\* if operation_mode == "upload": id = ObjectId()
\* elif operation_mode == "sync": validate doc_id; id = ObjectId(doc_id)
remote_worker_mode(p) ==
    /\ job[p].pc = "r_mode"
    /\ LET j == job[p]
       IN  CASE j.operation_mode = "upload" ->
                  /\ nextId' = nextId + 1
                  /\ job' = [job EXCEPT ![p] =
                                [@ EXCEPT !.id = ObjectId_new(nextId + 1), !.pc = "r_embed"]]
             [] j.operation_mode = "sync" ->
                  /\ UNCHANGED nextId
                  /\ IF j.doc_id = 0 \/ ~ObjectId_is_valid(j.doc_id)
                     THEN job' = [job EXCEPT ![p] = RemoteExcept(@, "doc_id")]
                     ELSE job' = [job EXCEPT ![p] =
                                     [@ EXCEPT !.id = j.doc_id, !.pc = "r_embed"]]
             [] OTHER ->
                  /\ UNCHANGED nextId
                  /\ job' = [job EXCEPT ![p].pc = "r_progress100"]
    /\ UNCHANGED <<submitted, jfixed, dirs>>

\* embed_and_store_documents(docs, full_path, id, self)
remote_worker_embed(p) ==
    /\ job[p].pc = "r_embed"
    /\ submitted' = Append(submitted, Call("embed", job[p]))
    /\ \E r \in SinkReports :
          LET called == [job[p] EXCEPT !.embedCalls = @ + 1, !.embedId = job[p].id,
                                       !.embedDocs = job[p].docs,
                                       !.progress = @ \o r]
          IN  \/ job' = [job EXCEPT ![p] = [called EXCEPT !.pc = "r_progress100"]]
              \/ job' = [job EXCEPT ![p] = RemoteExcept(called, "embed")]
    /\ UNCHANGED <<jfixed, dirs, nextId>>

\* self.update_state(state="PROGRESS", meta={"current": 100})
remote_worker_progress100(p) ==
    /\ job[p].pc = "r_progress100"
    /\ \/ job' = [job EXCEPT ![p] = [Reported(@, 100) EXCEPT !.pc = "r_file_data"]]
       \/ job' = [job EXCEPT ![p] =
                     [RemoteExcept(@, "progress") EXCEPT !.sinkFailed = TRUE]]
    /\ UNCHANGED <<submitted, jfixed, dirs, nextId>>

\* file_data = {..., "id": str(id), ...}: id is unbound in any other mode.
remote_worker_file_data(p) ==
    /\ job[p].pc = "r_file_data"
    /\ IF job[p].id = 0
       THEN job' = [job EXCEPT ![p] = RemoteExcept(@, "file_data")]
       ELSE job' = [job EXCEPT ![p].pc = "r_upload"]
    /\ UNCHANGED <<submitted, jfixed, dirs, nextId>>

\* upload_index(full_path, file_data)
remote_worker_upload_index(p) ==
    /\ job[p].pc = "r_upload"
    /\ submitted' = Append(submitted, Call("upload_index", job[p]))
    /\ LET called == [job[p] EXCEPT !.uploadCalls = @ + 1, !.uploadId = job[p].id]
       IN  \/ job' = [job EXCEPT ![p] = [called EXCEPT !.pc = "r_finally"]]
           \/ job' = [job EXCEPT ![p] = RemoteExcept(called, "upload_index")]
    /\ UNCHANGED <<jfixed, dirs, nextId>>

\* finally: if os.path.exists(full_path):
remote_worker_finally(p) ==
    /\ job[p].pc = "r_finally"
    /\ IF job[p].full_path \in dirs
       THEN job' = [job EXCEPT ![p].pc = "r_rmtree"]
       ELSE job' = [job EXCEPT ![p] = RemoteEnd(@)]
    /\ UNCHANGED <<submitted, jfixed, dirs, nextId>>

\* shutil.rmtree(full_path): raises when the directory is gone by now.
remote_worker_rmtree(p) ==
    /\ job[p].pc = "r_rmtree"
    /\ IF job[p].full_path \in dirs
       THEN /\ Rmtree(job[p].full_path)
            /\ job' = [job EXCEPT ![p] = RemoteEnd(@)]
       ELSE /\ UNCHANGED <<dirs, zipFiles, plainFiles>>
            /\ job' = [job EXCEPT ![p] = [@ EXCEPT !.pc = "done", !.outcome = "raised",
                                                   !.failedAt = "rmtree"]]
    /\ UNCHANGED <<submitted, parent, corrupt, max_depth, extract_to, zstack, extracted, opened,
                   warnings, errors, runs, nextId, svars, attachments>>

remote_worker(p) ==
    \/ remote_worker_exists(p)
    \/ remote_worker_makedirs(p)
    \/ remote_worker_progress1(p)
    \/ remote_worker_create_loader(p)
    \/ remote_worker_load_data(p)
    \/ remote_worker_chunk(p)
    \/ remote_worker_mode(p)
    \/ remote_worker_embed(p)
    \/ remote_worker_progress100(p)
    \/ remote_worker_file_data(p)
    \/ remote_worker_upload_index(p)
    \/ remote_worker_finally(p)
    \/ remote_worker_rmtree(p)

\* ------------------------------------------------------- sync, sync_worker
NoSync == [pc |-> "idle", proc |-> 1, frequency |-> "", idx |-> 1,
           total_sync_count |-> 0, sync_success |-> 0, sync_failure |-> 0]

\* Source records: _id, sync_frequency and the directory that
\* os.path.join("temp", user, name) names.
SourceRecords == [id : 1..MaxSources, sync_frequency : Freqs, full_path : Paths]

\* sync() with the error status lost: every call reports success.
sync_always_success(outcome) == "success"

\* sync() without its except clause: remote_worker's exception escapes.
sync_uncaught(outcome) == IF outcome = "raised" THEN "raise" ELSE "success"

\* sync(): try: remote_worker(...) except Exception: return {"status": "error"};
\* return {"status": "success"}.  "raise" would be an exception that escapes.
sync(outcome) == IF outcome = "raised" THEN "error" ELSE "success"

\* The filter that lets every record through.
Due_always(doc, frequency) == TRUE

\* if doc.get("sync_frequency") == frequency:
Due(doc, frequency) == doc.sync_frequency = frequency

\* The scheduler calls sync_worker(frequency).
sync_worker_start(p) ==
    /\ Free(p)
    /\ sw.pc \in {"idle", "returned", "raised"}
    /\ runs < MaxRuns
    /\ runs' = runs + 1
    /\ \E f \in Freqs : sw' = [NoSync EXCEPT !.pc = "scan", !.proc = p, !.frequency = f]
    /\ calls' = [i \in 1..MaxSources |-> 0]
    /\ raisedFor' = {}
    /\ submitted' = <<>>
    /\ UNCHANGED <<zvars, dirs, job, nextId, sources, attachments>>

\* for doc in sources: the record's sync_frequency differs from frequency.
sync_worker_skip(p) ==
    /\ sw.pc = "scan" /\ sw.proc = p
    /\ sw.idx <= Len(sources)
    /\ ~Due(sources[sw.idx], sw.frequency)
    /\ sw' = [sw EXCEPT !.idx = @ + 1]
    /\ UNCHANGED <<submitted, zvars, dirs, job, runs, nextId, sources, calls, raisedFor, attachments>>

\* resp = sync(self, source_data, name, user, source_type, frequency,
\*             retriever, doc_id): remote_worker runs in "sync" mode.
sync_worker_sync(p) ==
    /\ sw.pc = "scan" /\ sw.proc = p
    /\ sw.idx <= Len(sources)
    /\ Due(sources[sw.idx], sw.frequency)
    /\ job' = [job EXCEPT ![p] = RemoteJob(sources[sw.idx].full_path, "sync",
                                            sources[sw.idx].id, "sync")]
    /\ calls' = [calls EXCEPT ![sw.idx] = @ + 1]
    /\ sw' = [sw EXCEPT !.pc = "wait"]
    /\ UNCHANGED <<submitted, zvars, dirs, runs, nextId, sources, raisedFor, attachments>>

\* sync_counts["total_sync_count"] += 1
\* sync_counts["sync_success" if resp["status"] == "success" else "sync_failure"] += 1
\* sync_worker has no handler of its own: what escapes sync escapes it too.
sync_worker_count(p) ==
    /\ sw.pc = "wait" /\ sw.proc = p
    /\ job[p].pc = "done"
    /\ LET resp == sync(job[p].outcome)
       IN  IF resp = "raise"
           THEN sw' = [sw EXCEPT !.pc = "raised"]
           ELSE sw' = [sw EXCEPT !.pc = "scan", !.idx = @ + 1,
                                 !.total_sync_count = @ + 1,
                                 !.sync_success = IF resp = "success" THEN @ + 1 ELSE @,
                                 !.sync_failure = IF resp = "success" THEN @ ELSE @ + 1]
    /\ raisedFor' = IF job[p].outcome = "raised" THEN raisedFor \cup {sw.idx} ELSE raisedFor
    /\ UNCHANGED <<submitted, zvars, dirs, job, runs, nextId, sources, calls, attachments>>

\* return {key: sync_counts[key] for key in [...]}
sync_worker_return(p) ==
    /\ sw.pc = "scan" /\ sw.proc = p
    /\ sw.idx > Len(sources)
    /\ sw' = [sw EXCEPT !.pc = "returned"]
    /\ UNCHANGED <<submitted, zvars, dirs, job, runs, nextId, sources, calls, raisedFor, attachments>>

sync_worker(p) ==
    \/ sync_worker_skip(p)
    \/ sync_worker_sync(p)
    \/ sync_worker_count(p)
    \/ sync_worker_return(p)

\* ------------------------------------------------------------ ingest_worker
IngestJob(path, zip) ==
    [NoJob EXCEPT !.kind = "ingest", !.pc = "i_exists", !.full_path = path,
                  !.isZip = zip]

\* An exception in ingest_worker leaves the function at once.
IngestRaise(j, step) ==
    [j EXCEPT !.pc = "done", !.outcome = "raised", !.failedAt = step]

\* A caller starts ingest_worker; zips says which kinds of filename it may pass.
ingest_worker_start(p, zips) ==
    /\ Free(p)
    /\ runs < MaxRuns
    /\ runs' = runs + 1
    /\ \E path \in Paths, zip \in zips :
          job' = [job EXCEPT ![p] = IngestJob(path, zip)]
    /\ UNCHANGED <<submitted, zvars, dirs, nextId, svars, attachments>>

\* if not os.path.exists(full_path):
ingest_worker_exists(p) ==
    /\ job[p].pc = "i_exists"
    /\ job' = [job EXCEPT ![p].pc =
                  IF job[p].full_path \in dirs THEN "i_download" ELSE "i_makedirs"]
    /\ UNCHANGED <<submitted, jfixed, dirs, nextId>>

\* os.makedirs(full_path)
ingest_worker_makedirs(p) ==
    /\ job[p].pc = "i_makedirs"
    /\ \/ /\ job[p].full_path \notin dirs
          /\ dirs' = dirs \cup {job[p].full_path}
          /\ job' = [job EXCEPT ![p].pc = "i_download"]
       \/ /\ UNCHANGED dirs
          /\ job' = [job EXCEPT ![p] = IngestRaise(@, "makedirs")]
    /\ UNCHANGED <<submitted, jfixed, nextId>>

\* download_file(url, file_data, os.path.join(full_path, filename)): writes
\* the file, or logs and re-raises; open() raises when the directory is gone.
ingest_worker_download_file(p) ==
    /\ job[p].pc = "i_download"
    /\ LET d == job[p].full_path
       IN  \/ /\ d \in dirs
              /\ IF job[p].isZip
                 THEN /\ zipFiles' = [zipFiles EXCEPT ![d] = @ \cup {1}]
                      /\ UNCHANGED plainFiles
                 ELSE /\ plainFiles' = [plainFiles EXCEPT ![d] = @ \cup {0}]
                      /\ UNCHANGED zipFiles
              /\ job' = [job EXCEPT ![p].pc = "i_zip"]
           \/ /\ UNCHANGED <<zipFiles, plainFiles>>
              /\ job' = [job EXCEPT ![p] = IngestRaise(@, "download_file")]
    /\ UNCHANGED <<submitted, parent, corrupt, max_depth, extract_to, zstack, extracted, opened,
                   warnings, errors, dirs, runs, nextId, svars, attachments>>

\* if filename.endswith(".zip"):
\*     extract_zip_recursive(os.path.join(full_path, filename), full_path, 0,
\*                           RECURSION_DEPTH)
ingest_worker_zip(p) ==
    /\ job[p].pc = "i_zip"
    /\ IF job[p].isZip
       THEN /\ ~ZipRunning
            /\ zstack' = <<Frame(1, 0)>>
            /\ max_depth' = RECURSION_DEPTH
            /\ extract_to' = job[p].full_path
            /\ extracted' = [a \in Archives |-> 0]
            /\ opened' = {}
            /\ warnings' = 0
            /\ errors' = 0
            /\ job' = [job EXCEPT ![p].pc = "i_extract"]
       ELSE /\ job' = [job EXCEPT ![p].pc = "i_progress1"]
            /\ UNCHANGED <<zstack, max_depth, extract_to, extracted, opened,
                           warnings, errors>>
    /\ UNCHANGED <<submitted, parent, corrupt, zipFiles, plainFiles, dirs, runs, nextId, svars,
                   attachments>>

\* extract_zip_recursive has returned.
ingest_worker_extracted(p) ==
    /\ job[p].pc = "i_extract"
    /\ ~ZipRunning
    /\ job' = [job EXCEPT ![p].pc = "i_progress1"]
    /\ UNCHANGED <<submitted, jfixed, dirs, nextId>>

\* self.update_state(state="PROGRESS", meta={"current": 1})
ingest_worker_progress1(p) ==
    /\ job[p].pc = "i_progress1"
    /\ \/ job' = [job EXCEPT ![p] = [Reported(@, 1) EXCEPT !.pc = "i_load_data"]]
       \/ job' = [job EXCEPT ![p] =
                     [IngestRaise(@, "progress") EXCEPT !.sinkFailed = TRUE]]
    /\ UNCHANGED <<submitted, jfixed, dirs, nextId>>

\* raw_docs = SimpleDirectoryReader(...).load_data()
ingest_worker_load_data(p) ==
    /\ job[p].pc = "i_load_data"
    /\ \/ job' = [job EXCEPT ![p] = [@ EXCEPT !.pc = "i_chunk", !.docs = "raw"]]
       \/ job' = [job EXCEPT ![p] = IngestRaise(@, "load_data")]
    /\ UNCHANGED <<submitted, jfixed, dirs, nextId>>

\* raw_docs = chunker.chunk(documents=raw_docs)
\* docs = [Document.to_langchain_format(raw_doc) for raw_doc in raw_docs]
ingest_worker_chunk(p) ==
    /\ job[p].pc = "i_chunk"
    /\ \/ job' = [job EXCEPT ![p] = [@ EXCEPT !.pc = "i_ObjectId", !.docs = "chunked"]]
       \/ job' = [job EXCEPT ![p] = IngestRaise(@, "chunk")]
    /\ UNCHANGED <<submitted, jfixed, dirs, nextId>>

\* id = ObjectId()
ingest_worker_ObjectId(p) ==
    /\ job[p].pc = "i_ObjectId"
    /\ nextId' = nextId + 1
    /\ job' = [job EXCEPT ![p] = [@ EXCEPT !.id = ObjectId_new(nextId + 1),
                                           !.pc = "i_embed"]]
    /\ UNCHANGED <<submitted, jfixed, dirs>>

\* embed_and_store_documents(docs, full_path, id, self)
\* tokens = count_tokens_docs(docs)
ingest_worker_embed(p) ==
    /\ job[p].pc = "i_embed"
    /\ submitted' = Append(submitted, Call("embed", job[p]))
    /\ \E r \in SinkReports :
          LET called == [job[p] EXCEPT !.embedCalls = @ + 1, !.embedId = job[p].id,
                                       !.embedDocs = job[p].docs,
                                       !.progress = @ \o r]
          IN  \/ job' = [job EXCEPT ![p] = [called EXCEPT !.pc = "i_progress100"]]
              \/ job' = [job EXCEPT ![p] = IngestRaise(called, "embed")]
    /\ UNCHANGED <<jfixed, dirs, nextId>>

\* self.update_state(state="PROGRESS", meta={"current": 100})
ingest_worker_progress100(p) ==
    /\ job[p].pc = "i_progress100"
    /\ \/ job' = [job EXCEPT ![p] = [Reported(@, 100) EXCEPT !.pc = "i_upload"]]
       \/ job' = [job EXCEPT ![p] =
                     [IngestRaise(@, "progress") EXCEPT !.sinkFailed = TRUE]]
    /\ UNCHANGED <<submitted, jfixed, dirs, nextId>>

\* file_data.update({...}); upload_index(full_path, file_data)
ingest_worker_upload_index(p) ==
    /\ job[p].pc = "i_upload"
    /\ submitted' = Append(submitted, Call("upload_index", job[p]))
    /\ LET called == [job[p] EXCEPT !.uploadCalls = @ + 1, !.uploadId = job[p].id]
       IN  \/ job' = [job EXCEPT ![p] = [called EXCEPT !.pc = "i_rmtree"]]
           \/ job' = [job EXCEPT ![p] = IngestRaise(called, "upload_index")]
    /\ UNCHANGED <<jfixed, dirs, nextId>>

\* shutil.rmtree(full_path); return {...}
ingest_worker_rmtree(p) ==
    /\ job[p].pc = "i_rmtree"
    /\ IF job[p].full_path \in dirs
       THEN /\ Rmtree(job[p].full_path)
            /\ job' = [job EXCEPT ![p] = [@ EXCEPT !.pc = "done", !.outcome = "returned",
                                                   !.result = "ok"]]
       ELSE /\ UNCHANGED <<dirs, zipFiles, plainFiles>>
            /\ job' = [job EXCEPT ![p] = IngestRaise(@, "rmtree")]
    /\ UNCHANGED <<submitted, parent, corrupt, max_depth, extract_to, zstack, extracted, opened,
                   warnings, errors, runs, nextId, svars, attachments>>

ingest_worker(p) ==
    \/ ingest_worker_exists(p)
    \/ ingest_worker_makedirs(p)
    \/ ingest_worker_download_file(p)
    \/ ingest_worker_zip(p)
    \/ ingest_worker_progress1(p)
    \/ ingest_worker_load_data(p)
    \/ ingest_worker_chunk(p)
    \/ ingest_worker_ObjectId(p)
    \/ ingest_worker_embed(p)
    \/ ingest_worker_progress100(p)
    \/ ingest_worker_upload_index(p)
    \/ ingest_worker_rmtree(p)

\* -------------------------------------------------------- attachment_worker
AttachmentJob(folder, filename, exists) ==
    [NoJob EXCEPT !.kind = "attachment", !.pc = "a_folder", !.hasFolder = folder,
                  !.hasFilename = filename, !.fileExists = exists]

AttachmentRaise(j, step) ==
    [j EXCEPT !.pc = "done", !.outcome = "raised", !.failedAt = step]

\* return {"error": ...}
AttachmentError(j, step) ==
    [j EXCEPT !.pc = "done", !.outcome = "returned", !.result = "error",
              !.failedAt = step]

\* A caller starts attachment_worker with a file_info that has or lacks the
\* keys "folder" and "filename", for a file that exists or not.
attachment_worker_start(p) ==
    /\ Free(p)
    /\ runs < MaxRuns
    /\ runs' = runs + 1
    /\ \E folder \in BOOLEAN, filename \in BOOLEAN, exists \in BOOLEAN :
          job' = [job EXCEPT ![p] = AttachmentJob(folder, filename, exists)]
    /\ UNCHANGED <<submitted, zvars, dirs, nextId, svars, attachments>>

\* job_name = file_info["folder"]
attachment_worker_folder(p) ==
    /\ job[p].pc = "a_folder"
    /\ job' = [job EXCEPT ![p] = IF @.hasFolder THEN [@ EXCEPT !.pc = "a_progress10"]
                                 ELSE AttachmentRaise(@, "file_info")]
    /\ UNCHANGED <<submitted, jfixed, dirs, nextId>>

\* self.update_state(state="PROGRESS", meta={"current": 10})
attachment_worker_progress10(p) ==
    /\ job[p].pc = "a_progress10"
    /\ \/ job' = [job EXCEPT ![p] = [Reported(@, 10) EXCEPT !.pc = "a_filename"]]
       \/ job' = [job EXCEPT ![p] =
                     [AttachmentRaise(@, "progress") EXCEPT !.sinkFailed = TRUE]]
    /\ UNCHANGED <<submitted, jfixed, dirs, nextId>>

\* folder_name = file_info["folder"]; filename = file_info["filename"]
attachment_worker_filename(p) ==
    /\ job[p].pc = "a_filename"
    /\ job' = [job EXCEPT ![p] = IF @.hasFilename THEN [@ EXCEPT !.pc = "a_exists"]
                                 ELSE AttachmentRaise(@, "file_info")]
    /\ UNCHANGED <<submitted, jfixed, dirs, nextId>>

\* if not os.path.exists(file_path): return {"error": "File not found"}
attachment_worker_exists(p) ==
    /\ job[p].pc = "a_exists"
    /\ job' = [job EXCEPT ![p] = IF @.fileExists THEN [@ EXCEPT !.pc = "a_load_data"]
                                 ELSE AttachmentError(@, "not_found")]
    /\ UNCHANGED <<submitted, jfixed, dirs, nextId>>

\* documents = SimpleDirectoryReader(input_files=[file_path]).load_data()
attachment_worker_load_data(p) ==
    /\ job[p].pc = "a_load_data"
    /\ \/ \E docs \in {"empty", "some"} :
             job' = [job EXCEPT ![p] = [@ EXCEPT !.pc = "a_progress50",
                                                 !.documents = docs]]
       \/ job' = [job EXCEPT ![p] = AttachmentError(@, "load_data")]
    /\ UNCHANGED <<submitted, jfixed, dirs, nextId>>

\* self.update_state(state="PROGRESS", meta={"current": 50}), inside the try
attachment_worker_progress50(p) ==
    /\ job[p].pc = "a_progress50"
    /\ \/ job' = [job EXCEPT ![p] = [Reported(@, 50) EXCEPT !.pc = "a_documents"]]
       \/ job' = [job EXCEPT ![p] =
                     [AttachmentError(@, "progress") EXCEPT !.sinkFailed = TRUE]]
    /\ UNCHANGED <<submitted, jfixed, dirs, nextId>>

\* if documents: ... else: return {"error": "No content was extracted ..."}
attachment_worker_documents(p) ==
    /\ job[p].pc = "a_documents"
    /\ job' = [job EXCEPT ![p] = IF @.documents = "some" THEN [@ EXCEPT !.pc = "a_insert_one"]
                                 ELSE AttachmentError(@, "no_content")]
    /\ UNCHANGED <<submitted, jfixed, dirs, nextId>>

\* token_count = num_tokens_from_string(content)
\* attachment_id = attachments_collection.insert_one({...}).inserted_id
attachment_worker_insert_one(p) ==
    /\ job[p].pc = "a_insert_one"
    /\ \/ /\ attachments' = attachments + 1
          /\ job' = [job EXCEPT ![p] = [@ EXCEPT !.pc = "a_progress100",
                                                 !.inserted = @ + 1]]
       \/ /\ UNCHANGED attachments
          /\ job' = [job EXCEPT ![p] = AttachmentError(@, "insert_one")]
    /\ UNCHANGED <<submitted, zvars, dirs, runs, nextId, svars>>

\* self.update_state(state="PROGRESS", meta={"current": 100})
\* return {"attachment_id": str(attachment_id), ...}
attachment_worker_progress100(p) ==
    /\ job[p].pc = "a_progress100"
    /\ \/ job' = [job EXCEPT ![p] = [Reported(@, 100) EXCEPT !.pc = "done",
                                        !.outcome = "returned", !.result = "attachment"]]
       \/ job' = [job EXCEPT ![p] =
                     [AttachmentError(@, "progress") EXCEPT !.sinkFailed = TRUE]]
    /\ UNCHANGED <<submitted, jfixed, dirs, nextId>>

attachment_worker(p) ==
    \/ attachment_worker_folder(p)
    \/ attachment_worker_progress10(p)
    \/ attachment_worker_filename(p)
    \/ attachment_worker_exists(p)
    \/ attachment_worker_load_data(p)
    \/ attachment_worker_progress50(p)
    \/ attachment_worker_documents(p)
    \/ attachment_worker_insert_one(p)
    \/ attachment_worker_progress100(p)

\* ------------------------------------------------------------ initial states
ZipIdle ==
    /\ max_depth = RECURSION_DEPTH
    /\ extract_to = ZipDest
    /\ zstack = <<>>
    /\ zipFiles = [d \in Paths |-> {}]
    /\ plainFiles = [d \in Paths |-> {}]
    /\ extracted = [a \in Archives |-> 0]
    /\ opened = {}
    /\ warnings = 0
    /\ errors = 0

JobsIdle ==
    /\ job = [p \in Procs |-> NoJob]
    /\ runs = 0
    /\ nextId = 0
    /\ sw = NoSync
    /\ calls = [i \in 1..MaxSources |-> 0]
    /\ raisedFor = {}
    /\ attachments = 0
    /\ submitted = <<>>

NoArchive ==
    /\ parent = [a \in Archives |-> 0]
    /\ corrupt = {}

\* The file the download endpoint serves: any tree, with few corrupt archives.
SomeArchive ==
    /\ parent \in Trees
    /\ corrupt \in { c \in SUBSET Archives :
                       /\ Cardinality(c) <= MaxCorrupt
                       /\ \A a \in c : a = 1 \/ parent[a] # 0 }

NoSources == sources = <<>>

\* Any store of at most MaxSources records; record i carries _id i.
SomeSources ==
    sources \in { [i \in DOMAIN s |-> [id |-> i, sync_frequency |-> s[i][1],
                                        full_path |-> s[i][2]]] :
                    s \in UNION { [1..n -> Freqs \X Paths] : n \in 0..MaxSources } }

\* ------------------------------------------------ SpecZip: the extractor alone
\* extract_zip_recursive(archive 1, extract_to, 0, max_depth) on a directory
\* that holds the archive only.
ZipInit ==
    /\ SomeArchive
    /\ max_depth \in 0..MaxCeiling
    /\ extract_to = ZipDest
    /\ zstack = <<Frame(1, 0)>>
    /\ zipFiles = [d \in Paths |-> IF d = ZipDest THEN {1} ELSE {}]
    /\ plainFiles = [d \in Paths |-> {}]
    /\ extracted = [a \in Archives |-> 0]
    /\ opened = {}
    /\ warnings = 0
    /\ errors = 0
    /\ JobsIdle
    /\ dirs = {ZipDest}
    /\ NoSources

ZipNext ==
    \/ extract_zip_depth_exceeded
    \/ extract_zip_extractall
    \/ extract_zip_error
    \/ extract_zip_recurse
    \/ extract_zip_return

SpecZip == ZipInit /\ [][ZipNext]_vars

\* A running call is not suspended for ever: python runs each call to its
\* return.
SpecZipFair == SpecZip /\ WF_vars(ZipNext)

\* ------------------------------------------- SpecIngest: ingest_worker alone
IngestInit == ZipIdle /\ SomeArchive /\ JobsIdle /\ NoSources /\ dirs = {}

IngestNext ==
    \/ \E p \in {1} : \/ ingest_worker_start(p, BOOLEAN)
                      \/ ingest_worker(p)
                      \/ ingest_worker_extracted(p)
    \/ ZipNext

SpecIngest == IngestInit /\ [][IngestNext]_vars

\* --------------------- SpecExtract: one ingest_worker call on a .zip upload
ExtractNext ==
    \/ \E p \in {1} : \/ runs = 0 /\ ingest_worker_start(p, {TRUE})
                      \/ ingest_worker(p)
                      \/ ingest_worker_extracted(p)
    \/ ZipNext

SpecExtract == IngestInit /\ [][ExtractNext]_vars

\* ------------------------------------------- SpecRemote: remote_worker alone
RemoteInit ==
    /\ ZipIdle /\ NoArchive /\ JobsIdle /\ dirs = {}
    /\ SomeSources
    /\ Len(sources) <= 1

RemoteNext == \E p \in {1} : remote_worker_start(p) \/ remote_worker(p)

SpecRemote == RemoteInit /\ [][RemoteNext]_vars

\* ------------------------------------------------ SpecSync: the scheduler
SyncInit == ZipIdle /\ NoArchive /\ JobsIdle /\ SomeSources /\ dirs = {}

SyncNext == \E p \in {1} : sync_worker_start(p) \/ sync_worker(p) \/ remote_worker(p)

SpecSync == SyncInit /\ [][SyncNext]_vars

\* --------------------------------------- SpecAttach: attachment_worker alone
AttachInit == ZipIdle /\ NoArchive /\ JobsIdle /\ NoSources /\ dirs = {}

AttachNext == \E p \in {1} : attachment_worker_start(p) \/ attachment_worker(p)

SpecAttach == AttachInit /\ [][AttachNext]_vars

\* ------------------------------------ SpecJobs: the three jobs, one at a time
JobsInit == ZipIdle /\ NoArchive /\ JobsIdle /\ NoSources /\ dirs = {}

JobsNext ==
    \E p \in {1} :
        \/ ingest_worker_start(p, {FALSE})
        \/ remote_worker_start(p)
        \/ attachment_worker_start(p)
        \/ ingest_worker(p)
        \/ remote_worker(p)
        \/ attachment_worker(p)

SpecJobs == JobsInit /\ [][JobsNext]_vars

\* ------------------------------------- SpecConc: jobs running concurrently
ConcInit == ZipIdle /\ NoArchive /\ JobsIdle /\ NoSources /\ dirs = {}

ConcNext ==
    \E p \in Procs :
        \/ ingest_worker_start(p, {FALSE})
        \/ remote_worker_start(p) /\ job'[p].operation_mode # "other"
                                  /\ job'[p].doc_id \in {0, 1}
        \/ ingest_worker(p)
        \/ remote_worker(p)

SpecConc == ConcInit /\ [][ConcNext]_vars

\* ------------------------------------------------------------------ claims
Done(p) == job[p].pc = "done"

\* Object ids of the records in the store.
StoreIds == { sources[i].id : i \in 1..Len(sources) }

\* Source records whose sync_frequency equals the frequency of the scan.
Matching == { i \in 1..Len(sources) : sources[i].sync_frequency = sw.frequency }

\* C1: when ingest_worker has returned or raised, its working directory does
\* not exist.
C1_IngestRemovesDir ==
    \A p \in Procs :
        (job[p].kind = "ingest" /\ Done(p)) => job[p].full_path \notin dirs

\* C2: when remote_worker, in upload or sync mode, has returned or raised, its
\* working directory does not exist.
C2_RemoteRemovesDir ==
    \A p \in Procs :
        (job[p].kind = "remote" /\ Done(p)
            /\ job[p].operation_mode \in {"upload", "sync"})
        => job[p].full_path \notin dirs

\* C3: a sync-mode remote job whose doc_id is missing or malformed ends by
\* raising, has called neither the embedding sink nor upload_index, and has
\* removed its working directory.
C3_BadDocIdFailsClean ==
    \A p \in Procs :
        (job[p].kind = "remote" /\ Done(p) /\ job[p].operation_mode = "sync"
            /\ (job[p].doc_id = 0 \/ ~ObjectId_is_valid(job[p].doc_id)))
        => /\ job[p].outcome = "raised"
           /\ job[p].embedCalls = 0
           /\ job[p].uploadCalls = 0
           /\ job[p].full_path \notin dirs

\* C4: sync_worker(f) returns total = M, success = M - K, failure = K, where M
\* records match f and K of their resyncs raised, and no remote job was
\* started for a record that does not match.
C4_SyncCounts ==
    sw.pc = "returned" =>
        LET M == Cardinality(Matching)
            K == Cardinality(raisedFor)
        IN  /\ sw.total_sync_count = M
            /\ sw.sync_success = M - K
            /\ sw.sync_failure = K
            /\ sw.total_sync_count = sw.sync_success + sw.sync_failure
            /\ \A i \in 1..Len(sources) : i \notin Matching => calls[i] = 0

\* C4 witness: the scan of three records of which two match returned, one of
\* the two resyncs having failed.
C4_Witness ==
    /\ sw.pc = "returned"
    /\ Len(sources) = 3
    /\ Matching = {1, 3}
    /\ raisedFor = {3}

\* C5: sync_worker never raises; every matching record the scan has passed
\* was attempted exactly once, whether or not an earlier resync failed, and
\* no record is attempted ahead of the scan.
C5_FailureIsolated ==
    /\ sw.pc # "raised"
    /\ \A i \in 1..Len(sources) :
          /\ (sw.pc = "returned" /\ i \in Matching) => calls[i] = 1
          /\ (sw.pc \in {"scan", "wait"} /\ i \in Matching /\ i < sw.idx) => calls[i] = 1
          /\ (sw.pc \in {"scan", "wait"} /\ i > sw.idx) => calls[i] = 0
          /\ calls[i] <= 1

\* C5 witness: the first matching resync failed, a later one was still run
\* and succeeded, and sync_worker returned.
C5_Witness ==
    /\ sw.pc = "returned"
    /\ \E i, k \in Matching : i < k /\ i \in raisedFor /\ k \notin raisedFor
                                 /\ calls[k] = 1
    /\ sw.sync_failure >= 1

ZipDone == zstack = <<>>

\* C6: with well-formed archives, a finished extract_zip_recursive call has
\* unpacked every archive of nesting depth <= max_depth, has left deeper
\* ones packed, and has logged a warning when some archive lies deeper.
C6_UnpacksAllWithinCeiling ==
    (ZipDone /\ corrupt = {}) =>
        /\ \A a \in Archives : (Exists(a) /\ Depth(a) <= max_depth) =>
              (a \in plainFiles[extract_to] /\ a \notin zipFiles[extract_to])
        /\ \A a \in Archives : (Exists(a) /\ Depth(a) > max_depth) =>
              a \notin plainFiles[extract_to]
        /\ (\E a \in Archives : Exists(a) /\ Depth(a) > max_depth) => warnings > 0

\* A job uses its working directory from the step after creating it to the
\* step that removes it.
Using(p) ==
    job[p].pc \notin {"idle", "done", "r_exists", "r_makedirs", "i_exists", "i_makedirs"}

\* C7: no two live jobs use the same working directory.
C7_ExclusiveDirectory ==
    \A p, q \in Procs :
        (p # q /\ Using(p) /\ Using(q)) => job[p].full_path # job[q].full_path

\* C8: attachment_worker never raises, and returns an error result whenever
\* it inserted no attachment.
C8_AttachmentNeverRaises ==
    \A p \in Procs :
        (job[p].kind = "attachment" /\ Done(p)) =>
            /\ job[p].outcome = "returned"
            /\ job[p].inserted = 0 => job[p].result = "error"

\* C9: no job ends because a progress report failed.
C9_ProgressNeverStopsJob ==
    \A p \in Procs :
        (Done(p) /\ job[p].sinkFailed) => job[p].failedAt # "progress"

\* C10: a sync-mode remote job that has reached the embedding sink or
\* upload_index carries the id of a stored Source record; an upload-mode job
\* that has reached them carries a minted id, not the caller's doc_id.
C10_SyncIdResolves ==
    \A p \in Procs :
        (job[p].kind = "remote" /\ job[p].embedCalls + job[p].uploadCalls > 0) =>
            /\ job[p].operation_mode = "sync" => job[p].id \in StoreIds
            /\ job[p].operation_mode = "upload" =>
                  (job[p].id > MaxDocId + MaxSources /\ job[p].id # job[p].doc_id)

\* Calls of upload_index (completion payloads) and of the embedding sink.
Payloads == { i \in 1..Len(submitted) : submitted[i].sink = "upload_index" }
Embeds == { i \in 1..Len(submitted) : submitted[i].sink = "embed" }

\* The job that made call c mints its id: ingest_worker, or upload mode.
Mints(c) == c.kind = "ingest" \/ c.operation_mode = "upload"

\* C11: the payloads of two upload-mode runs carry distinct ids, also when
\* the inputs are identical; every embedding call and payload of a sync-mode
\* run carries the supplied doc_id, which is not a minted id.
C11_UploadMintsSyncReuses ==
    /\ \A i, k \in Payloads :
          (i # k /\ Mints(submitted[i]) /\ Mints(submitted[k]))
          => submitted[i].id # submitted[k].id
    /\ \A i \in Payloads \cup Embeds :
          submitted[i].operation_mode = "sync" =>
              /\ submitted[i].id = submitted[i].doc_id
              /\ submitted[i].id <= MaxDocId

\* C11 witness: two sync-mode runs with the same inputs have each called the
\* embedding sink and submitted a payload.
C11_Witness ==
    \E i, k \in Payloads, e, f \in Embeds :
        /\ i < k /\ e < i /\ i < f /\ f < k
        /\ \A c \in {i, k, e, f} : submitted[c].operation_mode = "sync"
        /\ submitted[i].doc_id = submitted[k].doc_id
        /\ submitted[i].full_path = submitted[k].full_path

\* The job in slot p ended with its success result.
Succeeded(p) == Done(p) /\ job[p].outcome = "returned" /\ job[p].result \in {"ok", "attachment"}

\* C12: the progress values a job has reported never decrease, and a job
\* that succeeded reported 100 last.
C12_ProgressMonotone ==
    \A p \in Procs :
        LET pr == job[p].progress
        IN  /\ \A i \in 1..(Len(pr) - 1) : pr[i] <= pr[i + 1]
            /\ Succeeded(p) => (Len(pr) > 0 /\ pr[Len(pr)] = 100)

\* C12 witness: a job succeeded after its checkpoints and the embedding sink
\* reported progress.
C12_Witness ==
    \E p \in Procs :
        /\ Succeeded(p)
        /\ job[p].kind \in {"ingest", "remote"}
        /\ Len(job[p].progress) >= 3

\* C13: no archive is opened at a recursion depth greater than 5, whatever
\* max_depth the caller supplies.
C13_NeverPastFive == \A d \in opened : d <= DEFAULT_MAX_DEPTH

\* C13 as amended: no archive is opened at a recursion depth greater than the
\* max_depth of the call.
C13_NeverPastMaxDepth == \A d \in opened : d <= max_depth

\* C13 witness: a call with max_depth 6 has opened an archive at depth 6 and
\* has refused the one at depth 7.
C13_Witness ==
    /\ max_depth = DEFAULT_MAX_DEPTH + 1
    /\ max_depth \in opened
    /\ warnings > 0
    /\ ZipDone

\* C14: when the download step of ingest_worker has failed, the job has
\* raised, the embedding sink and the upload-index endpoint have not been
\* called, and no file is left in the job's working directory.
C14_DownloadFailureLeavesNothing ==
    \A p \in Procs :
        (job[p].kind = "ingest" /\ job[p].failedAt = "download_file") =>
            /\ job[p].outcome = "raised"
            /\ job[p].embedCalls = 0
            /\ job[p].uploadCalls = 0
            /\ zipFiles[job[p].full_path] = {}
            /\ plainFiles[job[p].full_path] = {}

\* C15: a step in which the extraction of an archive fails returns from the
\* failing call alone, without descending from it, removes no file of the
\* working directory and leaves the ingestion job running; no step of the
\* extraction removes a document file, and after the extraction the job is
\* still on its way to the load step.
C15_ExtractionFailureContained ==
    /\ [][errors' > errors =>
            /\ zstack' = Pop
            /\ zipFiles[extract_to] \subseteq zipFiles'[extract_to]
            /\ plainFiles[extract_to] \subseteq plainFiles'[extract_to]
            /\ job' = job]_vars
    /\ [][ZipRunning =>
            plainFiles[extract_to] \subseteq plainFiles'[extract_to]]_vars
    /\ [](\A p \in Procs :
            (job[p].pc = "i_extract" \/ (job[p].isZip /\ job[p].pc = "i_progress1"))
            => job[p].outcome = "none")

\* C15 witness: a corrupt archive failed after writing one of its files, the
\* archive and the file are still in the working directory, and the job has
\* reached the load step.
C15_Witness ==
    \E p \in Procs, a \in corrupt :
        /\ job[p].kind = "ingest"
        /\ job[p].pc = "i_load_data"
        /\ errors > 0
        /\ a \in plainFiles[job[p].full_path]
        /\ a \in zipFiles[job[p].full_path]

\* C16: no archive is unpacked twice, and when every archive is well-formed
\* and of nesting depth <= max_depth a finished extract_zip_recursive call
\* leaves no archive in the working directory.
C16_UnpackedOnceNoneRemains ==
    /\ \A a \in Archives : extracted[a] <= 1
    /\ (ZipDone /\ corrupt = {}
           /\ \A a \in Archives : Exists(a) => Depth(a) <= max_depth)
       => zipFiles[extract_to] = {}

\* C17: whatever the frequency argument of the scan, no remote job has been
\* started for a record whose sync_frequency is "never".
C17_NeverIsNeverSynced ==
    \A i \in 1..Len(sources) :
        sources[i].sync_frequency = "never" => calls[i] = 0

\* C17 as amended: a scan starts remote jobs only for records whose
\* sync_frequency equals its frequency argument, so a "never" record is left
\* alone by every scan whose argument is not "never".
C17_OnlyMatchingSynced ==
    /\ \A i \in 1..Len(sources) :
          calls[i] > 0 => sources[i].sync_frequency = sw.frequency
    /\ sw.frequency # "never" =>
          \A i \in 1..Len(sources) :
              sources[i].sync_frequency = "never" => calls[i] = 0

\* C17 witness: a "daily" scan has returned after syncing a "daily" record
\* and passing over a "never" record.
C17_Witness ==
    /\ sw.pc = "returned"
    /\ sw.frequency = "daily"
    /\ \E i, k \in 1..Len(sources) :
          /\ sources[i].sync_frequency = "never" /\ calls[i] = 0
          /\ sources[k].sync_frequency = "daily" /\ calls[k] = 1

\* C18: every document set handed to the embedding sink, by ingest_worker or
\* by remote_worker, is the output of the chunker and not the loader's raw
\* documents.
C18_EmbedsChunkerOutput ==
    \A i \in Embeds : submitted[i].docs = "chunked"

\* C19: extract_zip_recursive terminates, and at no time are more than
\* max_depth + 2 of its calls active.
C19_TerminatesBoundedNesting ==
    /\ [](Len(zstack) <= max_depth + 2)
    /\ <>ZipDone

\* C19 witness: max_depth + 2 calls are active, the innermost at depth
\* max_depth + 1, in a call with max_depth above the default.
C19_Witness ==
    /\ ZipRunning
    /\ Len(zstack) = max_depth + 2
    /\ Top.current_depth = max_depth + 1
    /\ max_depth > DEFAULT_MAX_DEPTH

\* C20: an attachment job inserts at most one Attachment record, and when it
\* has ended it has inserted one exactly when it returned a success result;
\* after an error result it has inserted none.
C20_RecordIffSuccess ==
    \A p \in Procs :
        job[p].kind = "attachment" =>
            /\ job[p].inserted <= 1
            /\ Done(p) =>
                  /\ job[p].inserted = 1 <=>
                        (job[p].outcome = "returned" /\ job[p].result = "attachment")
                  /\ job[p].result = "error" => job[p].inserted = 0

====
